---- MODULE Spec2Model ----
(***************************************************************************)
(* Model of src/geometry.rs (rust-geojson): the typed Geometry / Value     *)
(* model, the encoder From<&Geometry> for JsonObject and the validating    *)
(* parser Geometry::from_object.                                           *)
(*                                                                         *)
(* Representation.                                                         *)
(*   JsonValue   : <<kind, payload>>, kind one of "null", "num",           *)
(*                 "str", "arr", "obj".  A JsonObject (BTreeMap<String,    *)
(*                 JsonValue>) is a function from its keys to JsonValues.  *)
(*   Option<T>   : <<>> is None, <<x>> is Some(x).                         *)
(*   Result<T,E> : <<"Ok", x>> or <<"Err", e>>.                            *)
(*   Value       : <<variant name, payload>>.                              *)
(*   Geometry    : [bbox |-> Option, value |-> Value, crs |-> Option].     *)
(*   f64         : finite numbers only, drawn from a small integer range.  *)
(***************************************************************************)
EXTENDS Integers, Sequences, FiniteSets, TLC

VARIABLES value, geometry, object, result, calls

vars == <<value, geometry, object, result, calls>>

RECURSIVE SeqsUpTo(_, _)
RECURSIVE ValueToJson(_), ToJsonObject(_)
RECURSIVE FromObject(_), ParseChildren(_, _, _)

(***************************************************************************)
(* Option, Result and JSON constructors                                    *)
(***************************************************************************)
None == <<>>
Some(x) == <<x>>
IsSome(o) == o # <<>>
Unwrap(o) == o[1]

Ok(x) == <<"Ok", x>>
Err(e) == <<"Err", e>>
IsOk(r) == r[1] = "Ok"
IsErr(r) == r[1] = "Err"
\* the value of an Ok, the error of an Err
Get(r) == r[2]

JNull == <<"null", 0>>
JNum(n) == <<"num", n>>
JStr(s) == <<"str", s>>
JArr(s) == <<"arr", s>>
JObj(m) == <<"obj", m>>
Kind(j) == j[1]
Val(j) == j[2]

\* BTreeMap::new() and BTreeMap::insert
EmptyMap == <<>>
Insert(m, key, val) ==
    [x \in (DOMAIN m) \cup {key} |-> IF x = key THEN val ELSE m[x]]
HasKey(m, key) == key \in DOMAIN m

\* the sequences over S of length at most n
SeqsUpTo(S, n) ==
    IF n = 0 THEN {<<>>}
    ELSE LET shorter == SeqsUpTo(S, n - 1)
         IN  shorter \cup {Append(s, x) : s \in {t \in shorter : Len(t) = n - 1}, x \in S}

MapSeq(Op(_), s) == [i \in 1..Len(s) |-> Op(s[i])]

(***************************************************************************)
(* The error kinds                                                         *)
(***************************************************************************)
GeometryUnknownType == "GeometryUnknownType"
InvalidTypeField == "InvalidTypeField"
MalformedCoordinates == "MalformedCoordinates"
MalformedBbox == "MalformedBbox"
MalformedCrs == "MalformedCrs"

(***************************************************************************)
(* Value and Geometry                                                      *)
(***************************************************************************)
Point(x) == <<"Point", x>>
MultiPoint(x) == <<"MultiPoint", x>>
LineString(x) == <<"LineString", x>>
MultiLineString(x) == <<"MultiLineString", x>>
Polygon(x) == <<"Polygon", x>>
MultiPolygon(x) == <<"MultiPolygon", x>>
GeometryCollection(x) == <<"GeometryCollection", x>>

Tag(val) == val[1]
Payload(val) == val[2]

Geometry(b, val, c) == [bbox |-> b, value |-> val, crs |-> c]

\* a plausible slip: the metadata defaults to empty values instead of None
GeometryNew_EmptyMetadata(val) == Geometry(Some(<<>>), val, None)

\* Geometry::new
GeometryNew(val) == Geometry(None, val, None)

(***************************************************************************)
(* Encoding: json_val of each payload type, then From<&Geometry>           *)
(***************************************************************************)
\* json_val(&Vec<f64>): a position (also a Bbox) becomes an array of numbers
PositionToJson(p) == JArr([i \in 1..Len(p) |-> JNum(p[i])])

\* json_val(&Vec<PointType>)
Positions1dToJson(l) == JArr([i \in 1..Len(l) |-> PositionToJson(l[i])])

\* json_val(&Vec<Vec<PointType>>)
Positions2dToJson(l) == JArr([i \in 1..Len(l) |-> Positions1dToJson(l[i])])

\* json_val(&Vec<Vec<Vec<PointType>>>)
Positions3dToJson(l) == JArr([i \in 1..Len(l) |-> Positions2dToJson(l[i])])

\* json_val(&Vec<Geometry>): every child becomes the object of its own encoding
GeometriesToJson(gs) == JArr([i \in 1..Len(gs) |-> JObj(ToJsonObject(gs[i]))])

\* json_val(&Bbox)
BboxToJson(b) == PositionToJson(b)

\* json_val(&Crs): a named coordinate reference system
CrsToJson(c) ==
    JObj([type |-> JStr("name"), properties |-> JObj([name |-> JStr(c.name)])])

\* ToJson for Value / From<&Value> for JsonValue
ValueToJson(val) ==
    CASE Tag(val) = "Point" -> PositionToJson(Payload(val))
      [] Tag(val) = "MultiPoint" -> Positions1dToJson(Payload(val))
      [] Tag(val) = "LineString" -> Positions1dToJson(Payload(val))
      [] Tag(val) = "MultiLineString" -> Positions2dToJson(Payload(val))
      [] Tag(val) = "Polygon" -> Positions2dToJson(Payload(val))
      [] Tag(val) = "MultiPolygon" -> Positions3dToJson(Payload(val))
      [] Tag(val) = "GeometryCollection" -> GeometriesToJson(Payload(val))

\* a plausible slip: a copied arm keeps the name of the arm it was copied from
TypeName_CopiedArm(val) ==
    CASE Tag(val) = "Point" -> "Point"
      [] Tag(val) = "MultiPoint" -> "MultiPoint"
      [] Tag(val) = "LineString" -> "LineString"
      [] Tag(val) = "MultiLineString" -> "MultiLineString"
      [] Tag(val) = "Polygon" -> "Polygon"
      [] Tag(val) = "MultiPolygon" -> "Polygon"
      [] Tag(val) = "GeometryCollection" -> "GeometryCollection"

\* the `ty` match of From<&Geometry> for JsonObject
TypeName(val) ==
    CASE Tag(val) = "Point" -> "Point"
      [] Tag(val) = "MultiPoint" -> "MultiPoint"
      [] Tag(val) = "LineString" -> "LineString"
      [] Tag(val) = "MultiLineString" -> "MultiLineString"
      [] Tag(val) = "Polygon" -> "Polygon"
      [] Tag(val) = "MultiPolygon" -> "MultiPolygon"
      [] Tag(val) = "GeometryCollection" -> "GeometryCollection"

\* a plausible slip: every variant is written under "coordinates"
PayloadKey_AlwaysCoordinates(val) == "coordinates"

\* the payload key match of From<&Geometry> for JsonObject
PayloadKey(val) ==
    IF Tag(val) = "GeometryCollection" THEN "geometries" ELSE "coordinates"

\* a plausible slip: absent metadata is written as an explicit null
ToJsonObject_NullForAbsent(g) ==
    LET m0 == EmptyMap
        m1 == Insert(m0, "crs", IF IsSome(g.crs) THEN CrsToJson(Unwrap(g.crs)) ELSE JNull)
        m2 == Insert(m1, "bbox", IF IsSome(g.bbox) THEN BboxToJson(Unwrap(g.bbox)) ELSE JNull)
        m3 == Insert(m2, "type", JStr(TypeName(g.value)))
        m4 == Insert(m3, PayloadKey(g.value), ValueToJson(g.value))
    IN  m4

\* From<&Geometry> for JsonObject
ToJsonObject(g) ==
    LET m0 == EmptyMap
        m1 == IF IsSome(g.crs) THEN Insert(m0, "crs", CrsToJson(Unwrap(g.crs))) ELSE m0
        m2 == IF IsSome(g.bbox) THEN Insert(m1, "bbox", BboxToJson(Unwrap(g.bbox))) ELSE m1
        m3 == Insert(m2, "type", JStr(TypeName(g.value)))
        m4 == Insert(m3, PayloadKey(g.value), ValueToJson(g.value))
    IN  m4

(***************************************************************************)
(* Decoding: the extraction helpers of util, then Geometry::from_object    *)
(***************************************************************************)
IsNumArray(j) == Kind(j) = "arr" /\ \A i \in 1..Len(Val(j)) : Kind(Val(j)[i]) = "num"

\* one position: an array of numbers
json_to_position(j) ==
    IF IsNumArray(j) THEN Ok([i \in 1..Len(Val(j)) |-> Val(Val(j)[i])])
    ELSE Err(MalformedCoordinates)

\* a list of positions
json_to_1d_positions(j) ==
    IF Kind(j) = "arr" /\ \A i \in 1..Len(Val(j)) : IsOk(json_to_position(Val(j)[i]))
    THEN Ok([i \in 1..Len(Val(j)) |-> Get(json_to_position(Val(j)[i]))])
    ELSE Err(MalformedCoordinates)

\* a list of lists of positions
json_to_2d_positions(j) ==
    IF Kind(j) = "arr" /\ \A i \in 1..Len(Val(j)) : IsOk(json_to_1d_positions(Val(j)[i]))
    THEN Ok([i \in 1..Len(Val(j)) |-> Get(json_to_1d_positions(Val(j)[i]))])
    ELSE Err(MalformedCoordinates)

\* a list of lists of lists of positions
json_to_3d_positions(j) ==
    IF Kind(j) = "arr" /\ \A i \in 1..Len(Val(j)) : IsOk(json_to_2d_positions(Val(j)[i]))
    THEN Ok([i \in 1..Len(Val(j)) |-> Get(json_to_2d_positions(Val(j)[i]))])
    ELSE Err(MalformedCoordinates)

get_coords_one_pos(obj) ==
    IF HasKey(obj, "coordinates") THEN json_to_position(obj["coordinates"])
    ELSE Err(MalformedCoordinates)

get_coords_1d_pos(obj) ==
    IF HasKey(obj, "coordinates") THEN json_to_1d_positions(obj["coordinates"])
    ELSE Err(MalformedCoordinates)

get_coords_2d_pos(obj) ==
    IF HasKey(obj, "coordinates") THEN json_to_2d_positions(obj["coordinates"])
    ELSE Err(MalformedCoordinates)

get_coords_3d_pos(obj) ==
    IF HasKey(obj, "coordinates") THEN json_to_3d_positions(obj["coordinates"])
    ELSE Err(MalformedCoordinates)

\* the children of a collection, parsed left to right; the first failure ends it
ParseChildren(arr, i, acc) ==
    IF i > Len(arr) THEN Ok(acc)
    ELSE IF Kind(arr[i]) # "obj" THEN Err(MalformedCoordinates)
    ELSE LET r == FromObject(Val(arr[i]))
         IN  IF IsErr(r) THEN r ELSE ParseChildren(arr, i + 1, Append(acc, Get(r)))

\* the error taxonomy has no kind of its own for a `geometries` payload that is
\* missing, not an array, or holds a non-object: the payload kind is used
get_geometries(obj) ==
    IF ~HasKey(obj, "geometries") THEN Err(MalformedCoordinates)
    ELSE IF Kind(obj["geometries"]) # "arr" THEN Err(MalformedCoordinates)
    ELSE ParseChildren(Val(obj["geometries"]), 1, <<>>)

get_bbox(obj) ==
    IF ~HasKey(obj, "bbox") THEN Ok(None)
    ELSE IF IsNumArray(obj["bbox"])
         THEN Ok(Some([i \in 1..Len(Val(obj["bbox"])) |-> Val(Val(obj["bbox"])[i])]))
         ELSE Err(MalformedBbox)

IsNamedCrs(j) ==
    /\ Kind(j) = "obj"
    /\ HasKey(Val(j), "type") /\ Val(j)["type"] = JStr("name")
    /\ HasKey(Val(j), "properties") /\ Kind(Val(j)["properties"]) = "obj"
    /\ HasKey(Val(Val(j)["properties"]), "name")
    /\ Kind(Val(Val(j)["properties"])["name"]) = "str"

get_crs(obj) ==
    IF ~HasKey(obj, "crs") THEN Ok(None)
    ELSE IF IsNamedCrs(obj["crs"])
         THEN Ok(Some([name |-> Val(Val(Val(obj["crs"])["properties"])["name"])]))
         ELSE Err(MalformedCrs)

\* expect_type!(object)
expect_type(obj) ==
    IF HasKey(obj, "type") /\ Kind(obj["type"]) = "str" THEN Ok(Val(obj["type"]))
    ELSE Err(InvalidTypeField)

\* the arms of the `match type_` of Geometry::from_object; try! returns the
\* extractor's error as it is
PointArm(obj) ==
    LET r == get_coords_one_pos(obj) IN IF IsErr(r) THEN r ELSE Ok(Point(Get(r)))

MultiPointArm(obj) ==
    LET r == get_coords_1d_pos(obj) IN IF IsErr(r) THEN r ELSE Ok(MultiPoint(Get(r)))

LineStringArm(obj) ==
    LET r == get_coords_1d_pos(obj) IN IF IsErr(r) THEN r ELSE Ok(LineString(Get(r)))

MultiLineStringArm(obj) ==
    LET r == get_coords_2d_pos(obj) IN IF IsErr(r) THEN r ELSE Ok(MultiLineString(Get(r)))

\* a plausible slip: the Polygon arm calls the extractor of a flat list
PolygonArm_FlatList(obj) ==
    LET r == get_coords_1d_pos(obj) IN IF IsErr(r) THEN r ELSE Ok(Polygon(Get(r)))

PolygonArm(obj) ==
    LET r == get_coords_2d_pos(obj) IN IF IsErr(r) THEN r ELSE Ok(Polygon(Get(r)))

MultiPolygonArm(obj) ==
    LET r == get_coords_3d_pos(obj) IN IF IsErr(r) THEN r ELSE Ok(MultiPolygon(Get(r)))

\* a plausible slip: a failing child list is replaced by the empty list
GeometryCollectionArm_Defaulting(obj) ==
    LET r == get_geometries(obj)
    IN  Ok(GeometryCollection(IF IsErr(r) THEN <<>> ELSE Get(r)))

GeometryCollectionArm(obj) ==
    LET r == get_geometries(obj) IN IF IsErr(r) THEN r ELSE Ok(GeometryCollection(Get(r)))

\* a plausible slip: the discriminator is matched without regard to case
ValueOfType_IgnoreCase(type_, obj) ==
    CASE type_ \in {"Point", "point", "POINT"} -> PointArm(obj)
      [] type_ = "MultiPoint" -> MultiPointArm(obj)
      [] type_ = "LineString" -> LineStringArm(obj)
      [] type_ = "MultiLineString" -> MultiLineStringArm(obj)
      [] type_ = "Polygon" -> PolygonArm(obj)
      [] type_ = "MultiPolygon" -> MultiPolygonArm(obj)
      [] type_ = "GeometryCollection" -> GeometryCollectionArm(obj)
      [] OTHER -> Err(GeometryUnknownType)

\* the `match type_` of Geometry::from_object
ValueOfType(type_, obj) ==
    CASE type_ = "Point" -> PointArm(obj)
      [] type_ = "MultiPoint" -> MultiPointArm(obj)
      [] type_ = "LineString" -> LineStringArm(obj)
      [] type_ = "MultiLineString" -> MultiLineStringArm(obj)
      [] type_ = "Polygon" -> PolygonArm(obj)
      [] type_ = "MultiPolygon" -> MultiPolygonArm(obj)
      [] type_ = "GeometryCollection" -> GeometryCollectionArm(obj)
      [] OTHER -> Err(GeometryUnknownType)

\* a plausible slip: the metadata is extracted before the type is looked at
FromObject_MetadataFirst(obj) ==
    LET bbox == get_bbox(obj) IN
    IF IsErr(bbox) THEN bbox ELSE
    LET crs == get_crs(obj) IN
    IF IsErr(crs) THEN crs ELSE
    LET type_ == expect_type(obj) IN
    IF IsErr(type_) THEN type_ ELSE
    LET val == ValueOfType(Get(type_), obj) IN
    IF IsErr(val) THEN val ELSE
    Ok(Geometry(Get(bbox), Get(val), Get(crs)))

\* a plausible slip: a bbox that cannot be read is taken as absent
FromObject_LenientBbox(obj) ==
    LET type_ == expect_type(obj) IN
    IF IsErr(type_) THEN type_ ELSE
    LET val == ValueOfType(Get(type_), obj) IN
    IF IsErr(val) THEN val ELSE
    LET bbox == get_bbox(obj) IN
    LET crs == get_crs(obj) IN
    IF IsErr(crs) THEN crs ELSE
    Ok(Geometry(IF IsErr(bbox) THEN None ELSE Get(bbox), Get(val), Get(crs)))

\* a plausible slip: crs is extracted before bbox
FromObject_CrsBeforeBbox(obj) ==
    LET type_ == expect_type(obj) IN
    IF IsErr(type_) THEN type_ ELSE
    LET val == ValueOfType(Get(type_), obj) IN
    IF IsErr(val) THEN val ELSE
    LET crs == get_crs(obj) IN
    IF IsErr(crs) THEN crs ELSE
    LET bbox == get_bbox(obj) IN
    IF IsErr(bbox) THEN bbox ELSE
    Ok(Geometry(Get(bbox), Get(val), Get(crs)))

\* Geometry::from_object
FromObject(obj) ==
    LET type_ == expect_type(obj) IN
    IF IsErr(type_) THEN type_ ELSE
    LET val == ValueOfType(Get(type_), obj) IN
    IF IsErr(val) THEN val ELSE
    LET bbox == get_bbox(obj) IN
    IF IsErr(bbox) THEN bbox ELSE
    LET crs == get_crs(obj) IN
    IF IsErr(crs) THEN crs ELSE
    Ok(Geometry(Get(bbox), Get(val), Get(crs)))

(***************************************************************************)
(* Bounds and the inputs drawn from them                                   *)
(***************************************************************************)
MaxNum == 1
MaxPosLen == 2
MaxLen == 2
MaxDepth == 3

Nums == 0..MaxNum

\* every position of at most MaxPosLen numbers (the length is not validated)
Positions == SeqsUpTo(Nums, MaxPosLen)

SamplePositions == {<<>>, <<0, 1>>, <<1, 0>>}
Lists1d == SeqsUpTo(SamplePositions, MaxLen)

SampleLists1d == {<<>>, << <<0, 1>> >>, << <<1, 0>>, <<0, 1>> >>}
Lists2d == SeqsUpTo(SampleLists1d, MaxLen)

SampleLists2d == {<<>>, << << <<0, 1>> >> >>, << <<>>, << <<1, 0>>, <<0, 1>> >> >>}
Lists3d == SeqsUpTo(SampleLists2d, MaxLen)

SampleBbox == <<0, 0, 1, 1>>
SampleCrs == [name |-> "EPSG:4326"]
BboxOptions == {None, Some(<<>>), Some(SampleBbox)}
CrsOptions == {None, Some(SampleCrs), Some([name |-> ""])}

LeafValues ==
    {Point(x) : x \in Positions}
    \cup {MultiPoint(x) : x \in Lists1d}
    \cup {LineString(x) : x \in Lists1d}
    \cup {MultiLineString(x) : x \in Lists2d}
    \cup {Polygon(x) : x \in Lists2d}
    \cup {MultiPolygon(x) : x \in Lists3d}

\* children of mixed shapes, some carrying metadata
SampleLeaves ==
    { GeometryNew(Point(<<0, 1>>)),
      Geometry(Some(SampleBbox), LineString(<< <<1, 0>>, <<0, 1>> >>), None),
      Geometry(None, Polygon(<< << <<0, 1>> >> >>), Some(SampleCrs)),
      GeometryNew(MultiPolygon(<<>>)) }

\* a collection used as a child: it carries a bbox when it has exactly one child
Nested(s) ==
    Geometry(IF Len(s) = 1 THEN Some(SampleBbox) ELSE None, GeometryCollection(s), None)

RECURSIVE Children(_)
\* the geometries usable as children of a collection of nesting depth d + 1
Children(d) ==
    IF d = 0 THEN SampleLeaves
    ELSE SampleLeaves \cup {Nested(s) : s \in SeqsUpTo(Children(d - 1), 1)}

CollectionValues ==
    {GeometryCollection(s) : s \in SeqsUpTo(Children(MaxDepth - 1), MaxLen)}

Values == LeafValues \cup CollectionValues

CollectionMeta ==
    {<<None, None>>, <<Some(SampleBbox), None>>, <<None, Some(SampleCrs)>>,
     <<Some(SampleBbox), Some(SampleCrs)>>}

Geometries ==
    {Geometry(b, v, c) : b \in BboxOptions, v \in LeafValues, c \in CrsOptions}
    \cup {Geometry(m[1], v, m[2]) : m \in CollectionMeta, v \in CollectionValues}

(***************************************************************************)
(* Arbitrary JSON objects handed to from_object                            *)
(***************************************************************************)
CanonicalNames ==
    {"Point", "MultiPoint", "LineString", "MultiLineString", "Polygon",
     "MultiPolygon", "GeometryCollection"}

TypeInputs ==
    {None}
    \cup {Some(JStr(n)) : n \in CanonicalNames}
    \cup {Some(JStr(n)) : n \in {"Circle", "point", "POINT", "Geometry", ""}}
    \cup {Some(JNum(1)), Some(JNull), Some(JArr(<<JStr("Point")>>))}

P01 == JArr(<<JNum(0), JNum(1)>>)
P10 == JArr(<<JNum(1), JNum(0)>>)

PointObject == [type |-> JStr("Point"), coordinates |-> P01]
LineObject == [type |-> JStr("LineString"), coordinates |-> JArr(<<P10, P01>>),
               bbox |-> JArr(<<JNum(0), JNum(0), JNum(1), JNum(1)>>)]
BadCoordsObject == [type |-> JStr("Polygon"), coordinates |-> P01]
UnknownTypeObject == [type |-> JStr("Circle"), coordinates |-> P01]
NoTypeObject == [coordinates |-> P01]
BadBboxObject == [type |-> JStr("Point"), coordinates |-> P01, bbox |-> JStr("x")]
BadCrsObject == [type |-> JStr("Point"), coordinates |-> P01, crs |-> JNum(1)]
Collection(children) == [type |-> JStr("GeometryCollection"), geometries |-> JArr(children)]

CoordInputs ==
    {None}
    \cup { Some(JNum(1)), Some(JNull), Some(JStr("x")), Some(JObj(PointObject)),
           Some(JArr(<<>>)), Some(P01), Some(JArr(<<JNum(0), JStr("x")>>)),
           Some(JArr(<<JArr(<<>>)>>)), Some(JArr(<<P01, P10>>)),
           Some(JArr(<<P01, JNum(1)>>)),
           Some(JArr(<<JArr(<<P01>>)>>)), Some(JArr(<<JArr(<<P01>>), P10>>)),
           Some(JArr(<<JArr(<<JArr(<<P01, P10>>)>>)>>)),
           Some(JArr(<<JArr(<<JArr(<<JArr(<<P01>>)>>)>>)>>)),
           Some(JArr(<<JObj(PointObject)>>)) }

GeometriesInputs ==
    {None}
    \cup { Some(JNum(1)), Some(JObj(PointObject)), Some(P01),
           Some(JArr(<<>>)),
           Some(JArr(<<JObj(PointObject)>>)),
           Some(JArr(<<JObj(PointObject), JObj(LineObject)>>)),
           Some(JArr(<<JObj(LineObject), JObj(BadCoordsObject), JObj(PointObject)>>)),
           Some(JArr(<<JObj(UnknownTypeObject), JObj(BadCoordsObject)>>)),
           Some(JArr(<<JObj(PointObject), JObj(NoTypeObject), JObj(BadBboxObject)>>)),
           Some(JArr(<<JObj(BadCrsObject), JObj(BadBboxObject)>>)),
           Some(JArr(<<JObj(PointObject), JStr("x")>>)),
           Some(JArr(<<JObj(Collection(<<JObj(PointObject), JObj(Collection(<<>>))>>)),
                       JObj(LineObject)>>)),
           Some(JArr(<<JObj(PointObject),
                       JObj(Collection(<<JObj(LineObject),
                                         JObj(Collection(<<JObj(BadBboxObject)>>))>>))>>)) }

\* the payload fields: one of the two is varied freely, the other is absent or plain
PayloadInputs ==
    {<<c, g>> : c \in CoordInputs, g \in {None, Some(JArr(<<JObj(PointObject)>>))}}
    \cup {<<c, g>> : c \in {None, Some(P01)}, g \in GeometriesInputs}

BboxInputs ==
    { None, Some(JArr(<<JNum(0), JNum(0), JNum(1), JNum(1)>>)), Some(JArr(<<>>)),
      Some(JStr("x")), Some(JArr(<<JNum(0), JStr("x")>>)), Some(JNull) }

CrsInputs ==
    { None, Some(CrsToJson(SampleCrs)), Some(JNum(1)), Some(JNull),
      Some(JObj([type |-> JStr("name")])) }

Put(m, key, opt) == IF IsSome(opt) THEN Insert(m, key, Unwrap(opt)) ELSE m

MkObject(t, c, g, b, r) ==
    Put(Put(Put(Put(Put(EmptyMap, "type", t), "coordinates", c), "geometries", g),
            "bbox", b), "crs", r)

InputObjects ==
    {MkObject(t, p[1], p[2], b, r) :
        t \in TypeInputs, p \in PayloadInputs, b \in BboxInputs, r \in CrsInputs}

(***************************************************************************)
(* The state machine: an input is given, then new / encode / decode act    *)
(***************************************************************************)
Init ==
    /\ calls = <<>>
    /\ result = None
    /\ \/ value \in {Some(v) : v \in Values} /\ geometry = None /\ object = None
       \/ value = None /\ geometry \in {Some(g) : g \in Geometries} /\ object = None
       \/ value = None /\ geometry = None /\ object \in {Some(o) : o \in InputObjects}

\* Geometry::new(value)
New ==
    /\ IsSome(value) /\ geometry = None
    /\ geometry' = Some(GeometryNew(Unwrap(value)))
    /\ calls' = Append(calls, "new")
    /\ UNCHANGED <<value, object, result>>

\* JsonObject::from(&geometry)
Encode ==
    /\ IsSome(geometry) /\ object = None
    /\ object' = Some(ToJsonObject(Unwrap(geometry)))
    /\ calls' = Append(calls, "encode")
    /\ UNCHANGED <<value, geometry, result>>

\* Geometry::from_object(&object)
Decode ==
    /\ IsSome(object) /\ result = None
    /\ result' = Some(FromObject(Unwrap(object)))
    /\ calls' = Append(calls, "decode")
    /\ UNCHANGED <<value, geometry, object>>

Next == New \/ Encode \/ Decode

Spec == Init /\ [][Next]_vars

(***************************************************************************)
(* Vocabulary of the properties, stated on the JSON text of the input and  *)
(* not through the extraction helpers                                      *)
(***************************************************************************)
TheObject == Unwrap(object)
TheResult == Unwrap(result)
TheGeometry == Unwrap(geometry)

\* from_object has returned
Decoded == IsSome(result)
\* the object at hand was produced by the encoder from the geometry at hand
Encoded == IsSome(object) /\ IsSome(geometry)

CoordinateTypes == CanonicalNames \ {"GeometryCollection"}

HasStringType(o) == HasKey(o, "type") /\ Kind(o["type"]) = "str"
TypeIs(o, names) == HasStringType(o) /\ Val(o["type"]) \in names

\* the nesting of arrays around the positions that each type requires
DepthOf(name) ==
    CASE name = "Point" -> 0
      [] name \in {"MultiPoint", "LineString"} -> 1
      [] name \in {"MultiLineString", "Polygon"} -> 2
      [] name = "MultiPolygon" -> 3

RECURSIVE WellNested(_, _)
\* j is a position wrapped in exactly d levels of arrays
WellNested(j, d) ==
    /\ Kind(j) = "arr"
    /\ \A i \in 1..Len(Val(j)) :
          IF d = 0 THEN Kind(Val(j)[i]) = "num" ELSE WellNested(Val(j)[i], d - 1)

CoordinatesFit(o) ==
    HasKey(o, "coordinates") /\ WellNested(o["coordinates"], DepthOf(Val(o["type"])))

IsCollection(val) == Tag(val) = "GeometryCollection"

RECURSIVE NestingDepth(_)
\* 0 for a plain shape, 1 + the deepest child for a collection
NestingDepth(g) ==
    IF ~IsCollection(g.value) THEN 0
    ELSE LET ds == {NestingDepth(Payload(g.value)[i]) : i \in 1..Len(Payload(g.value))}
         IN  1 + (IF ds = {} THEN 0 ELSE CHOOSE d \in ds : \A e \in ds : e <= d)

\* C1: decoding the object that the encoder produced from a geometry returns Ok
\* of a geometry equal to it: same variant, coordinates, children in the same
\* order and nesting, same bbox and crs.
RoundTrip == (Decoded /\ Encoded) => TheResult = Ok(TheGeometry)

\* a collection of mixed shapes holding a collection that holds a collection,
\* with its own bbox, has been encoded and decoded
RoundTripWitness ==
    /\ Decoded /\ Encoded
    /\ IsCollection(TheGeometry.value)
    /\ NestingDepth(TheGeometry) = 3
    /\ Len(Payload(TheGeometry.value)) = 2
    /\ Tag(Payload(TheGeometry.value)[1].value) = "LineString"
    /\ IsSome(TheGeometry.bbox) /\ TheGeometry.crs = None
    /\ TheResult = Ok(TheGeometry)

\* C2: a type string that is not, case-sensitively, one of the seven names gives
\* the unknown-geometry-type error whatever the other fields hold.
UnknownTypeFails ==
    (Decoded /\ HasStringType(TheObject) /\ ~TypeIs(TheObject, CanonicalNames))
        => TheResult = Err(GeometryUnknownType)

\* "point" with well-formed Point coordinates has been refused
UnknownTypeWitness ==
    /\ Decoded
    /\ TypeIs(TheObject, {"point"})
    /\ HasKey(TheObject, "coordinates") /\ WellNested(TheObject["coordinates"], 0)
    /\ DOMAIN TheObject = {"type", "coordinates"}
    /\ TheResult = Err(GeometryUnknownType)

\* C3: no type key, or a type that is not a string, gives InvalidTypeField
\* whatever the other fields hold.
MissingTypeFails ==
    (Decoded /\ ~HasStringType(TheObject)) => TheResult = Err(InvalidTypeField)

\* an object with a numeric type and a malformed bbox has been refused for its type
MissingTypeWitness ==
    /\ Decoded
    /\ HasKey(TheObject, "type") /\ Kind(TheObject["type"]) = "num"
    /\ HasKey(TheObject, "bbox") /\ Kind(TheObject["bbox"]) = "str"
    /\ TheResult = Err(InvalidTypeField)

\* C4: for the six coordinate types a geometry is returned only when
\* `coordinates` is present with the nesting depth of the type; when it is missing
\* or of any other depth the result is MalformedCoordinates.
DepthMismatchFails ==
    (Decoded /\ TypeIs(TheObject, CoordinateTypes)) =>
        /\ ~CoordinatesFit(TheObject) => TheResult = Err(MalformedCoordinates)
        /\ IsOk(TheResult) =>
              /\ CoordinatesFit(TheObject)
              /\ Tag(Get(TheResult).value) = Val(TheObject["type"])
              /\ ValueToJson(Get(TheResult).value) = TheObject["coordinates"]

\* a Polygon whose coordinates are a flat list of positions has been refused
DepthMismatchWitness ==
    /\ Decoded
    /\ TypeIs(TheObject, {"Polygon"})
    /\ HasKey(TheObject, "coordinates")
    /\ WellNested(TheObject["coordinates"], 1)
    /\ Len(Val(TheObject["coordinates"])) = 2
    /\ ~HasKey(TheObject, "bbox") /\ ~HasKey(TheObject, "crs")
    /\ TheResult = Err(MalformedCoordinates)

\* C5: the encoder writes `bbox` exactly when the bbox is Some and `crs` exactly
\* when the crs is Some, never a null; with both absent the object has exactly the
\* type key and the payload key; a bbox without crs survives the round trip.
AbsentMetadataOmitted ==
    Encoded =>
        /\ HasKey(TheObject, "bbox") <=> IsSome(TheGeometry.bbox)
        /\ HasKey(TheObject, "crs") <=> IsSome(TheGeometry.crs)
        /\ \A key \in DOMAIN TheObject : TheObject[key] # JNull
        /\ (TheGeometry.bbox = None /\ TheGeometry.crs = None) =>
              /\ Cardinality(DOMAIN TheObject) = 2
              /\ "type" \in DOMAIN TheObject
              /\ DOMAIN TheObject \cap {"coordinates", "geometries"} # {}
        /\ (Decoded /\ IsSome(TheGeometry.bbox) /\ TheGeometry.crs = None) =>
              /\ IsOk(TheResult)
              /\ Get(TheResult).bbox = TheGeometry.bbox
              /\ Get(TheResult).crs = None

\* a geometry with a bbox and no crs has been encoded without a crs key and decoded
AbsentMetadataWitness ==
    /\ Encoded /\ Decoded
    /\ TheGeometry.bbox = Some(SampleBbox) /\ TheGeometry.crs = None
    /\ DOMAIN TheObject = {"bbox", "type", "coordinates"}
    /\ IsOk(TheResult) /\ Get(TheResult).bbox = Some(SampleBbox)

\* the children listed under `geometries`, when that is an array
ChildrenOf(o) == Val(o["geometries"])
HasChildList(o) == HasKey(o, "geometries") /\ Kind(o["geometries"]) = "arr"
AllChildrenObjects(o) == \A i \in 1..Len(ChildrenOf(o)) : Kind(ChildrenOf(o)[i]) = "obj"
ChildResult(o, i) == FromObject(Val(ChildrenOf(o)[i]))
FailingChildren(o) == {i \in 1..Len(ChildrenOf(o)) : IsErr(ChildResult(o, i))}
FirstFailingChild(o) == CHOOSE i \in FailingChildren(o) : \A k \in FailingChildren(o) : i <= k

\* C6: the encoder writes exactly one payload key, `geometries` for a collection
\* and `coordinates` for the other six, under the canonical type name; the parser
\* takes a collection's payload only from `geometries` and the others' only from
\* `coordinates`, so a payload under the other key does not parse.
OnePayloadKey ==
    /\ Encoded =>
          /\ HasKey(TheObject, "geometries") <=> IsCollection(TheGeometry.value)
          /\ HasKey(TheObject, "coordinates") <=> ~IsCollection(TheGeometry.value)
          /\ TheObject["type"] = JStr(Tag(TheGeometry.value))
          /\ Tag(TheGeometry.value) \in CanonicalNames
    /\ (Decoded /\ TypeIs(TheObject, {"GeometryCollection"})) =>
          /\ ~HasKey(TheObject, "geometries") => IsErr(TheResult)
          /\ IsOk(TheResult) =>
                /\ HasChildList(TheObject)
                /\ Len(Payload(Get(TheResult).value)) = Len(ChildrenOf(TheObject))
    /\ (Decoded /\ TypeIs(TheObject, CoordinateTypes)) =>
          /\ ~HasKey(TheObject, "coordinates") => IsErr(TheResult)
          /\ IsOk(TheResult) =>
                ValueToJson(Get(TheResult).value) = TheObject["coordinates"]

\* a MultiPolygon has been encoded under `coordinates` alone and its own name
OnePayloadKeyWitness ==
    /\ Encoded
    /\ Tag(TheGeometry.value) = "MultiPolygon"
    /\ Len(Payload(TheGeometry.value)) = 2
    /\ HasKey(TheObject, "coordinates") /\ ~HasKey(TheObject, "geometries")
    /\ TheObject["type"] = JStr("MultiPolygon")

\* a collection whose children sit under `coordinates` has been refused
OtherKeyWitness ==
    /\ Decoded
    /\ TypeIs(TheObject, {"GeometryCollection"})
    /\ DOMAIN TheObject = {"type", "coordinates"}
    /\ TheObject["coordinates"] = JArr(<<JObj(PointObject)>>)
    /\ IsErr(TheResult)

\* the extraction call that the type of o selects
Extraction(o) ==
    LET name == Val(o["type"]) IN
    CASE name = "Point" -> get_coords_one_pos(o)
      [] name \in {"MultiPoint", "LineString"} -> get_coords_1d_pos(o)
      [] name \in {"MultiLineString", "Polygon"} -> get_coords_2d_pos(o)
      [] name = "MultiPolygon" -> get_coords_3d_pos(o)
      [] name = "GeometryCollection" -> get_geometries(o)
      [] OTHER -> Err(GeometryUnknownType)

\* C7: from_object is all-or-nothing: the error of the first step that fails is
\* the result, unchanged; a collection with a failing child fails with that
\* child's error, and a collection that parses holds every child, in order.
AllOrNothing ==
    Decoded =>
        /\ LET t == expect_type(TheObject) IN
           /\ IsErr(t) => TheResult = t
           /\ IsOk(t) =>
                LET e == Extraction(TheObject) IN
                /\ IsErr(e) => TheResult = e
                /\ IsOk(e) =>
                     LET b == get_bbox(TheObject) IN
                     /\ IsErr(b) => TheResult = b
                     /\ IsOk(b) =>
                          LET c == get_crs(TheObject) IN
                          /\ IsErr(c) => TheResult = c
                          /\ IsOk(c) => IsOk(TheResult)
        /\ (TypeIs(TheObject, {"GeometryCollection"}) /\ HasChildList(TheObject)) =>
              /\ (AllChildrenObjects(TheObject) /\ FailingChildren(TheObject) # {}) =>
                    TheResult = ChildResult(TheObject, FirstFailingChild(TheObject))
              /\ IsOk(TheResult) =>
                    /\ AllChildrenObjects(TheObject)
                    /\ Payload(Get(TheResult).value) =
                          [i \in 1..Len(ChildrenOf(TheObject)) |-> Get(ChildResult(TheObject, i))]

\* a collection with a valid child, then a malformed one, then a valid one has
\* failed as a whole with the malformed child's error
AllOrNothingWitness ==
    /\ Decoded
    /\ TypeIs(TheObject, {"GeometryCollection"})
    /\ HasChildList(TheObject) /\ AllChildrenObjects(TheObject)
    /\ Len(ChildrenOf(TheObject)) = 3
    /\ FailingChildren(TheObject) = {2}
    /\ ~HasKey(TheObject, "bbox") /\ ~HasKey(TheObject, "crs")
    /\ TheResult = Err(MalformedCoordinates)

\* well-formed metadata, read off the JSON text
BboxWellFormed(j) ==
    Kind(j) = "arr" /\ \A i \in 1..Len(Val(j)) : Kind(Val(j)[i]) = "num"
CrsWellFormed(j) == \E c \in {Unwrap(x) : x \in CrsOptions \ {None}} : j = CrsToJson(c)

\* the type is one of the seven and the payload it calls for is well formed
PayloadOk(o) ==
    /\ TypeIs(o, CanonicalNames)
    /\ TypeIs(o, CoordinateTypes) => CoordinatesFit(o)
    /\ TypeIs(o, {"GeometryCollection"}) =>
          HasChildList(o) /\ AllChildrenObjects(o) /\ FailingChildren(o) = {}

BboxDefect(o) == HasKey(o, "bbox") /\ ~BboxWellFormed(o["bbox"])
CrsDefect(o) == HasKey(o, "crs") /\ ~CrsWellFormed(o["crs"])

\* C8: with a valid type and payload, each of bbox and crs is absent (Ok, field
\* None), present and well formed (Ok, field Some of the value) or present and
\* malformed (the parse fails, MalformedBbox for bbox and MalformedCrs for crs),
\* whatever the geometry type and whatever the other field is.
OptionalMetadata ==
    (Decoded /\ PayloadOk(TheObject)) =>
        /\ BboxDefect(TheObject) => TheResult = Err(MalformedBbox)
        /\ (CrsDefect(TheObject) /\ ~BboxDefect(TheObject)) => TheResult = Err(MalformedCrs)
        /\ (~BboxDefect(TheObject) /\ ~CrsDefect(TheObject)) =>
              /\ IsOk(TheResult)
              /\ ~HasKey(TheObject, "bbox") => Get(TheResult).bbox = None
              /\ HasKey(TheObject, "bbox") =>
                    /\ IsSome(Get(TheResult).bbox)
                    /\ BboxToJson(Unwrap(Get(TheResult).bbox)) = TheObject["bbox"]
              /\ ~HasKey(TheObject, "crs") => Get(TheResult).crs = None
              /\ HasKey(TheObject, "crs") =>
                    /\ IsSome(Get(TheResult).crs)
                    /\ CrsToJson(Unwrap(Get(TheResult).crs)) = TheObject["crs"]

\* a valid MultiPoint with a malformed bbox and a well-formed crs has been refused
\* with MalformedBbox
OptionalMetadataWitness ==
    /\ Decoded
    /\ TypeIs(TheObject, {"MultiPoint"}) /\ PayloadOk(TheObject)
    /\ BboxDefect(TheObject)
    /\ HasKey(TheObject, "crs") /\ ~CrsDefect(TheObject)
    /\ TheResult = Err(MalformedBbox)

\* C9: Geometry::new(value) holds the value unchanged with bbox and crs None, for
\* every value of every variant, and is never refused.
NewHasNoMetadata ==
    /\ (IsSome(value) /\ geometry = None) => ENABLED New
    /\ (IsSome(value) /\ IsSome(geometry)) =>
          /\ TheGeometry.value = Unwrap(value)
          /\ TheGeometry.bbox = None
          /\ TheGeometry.crs = None

\* new has been applied to a collection of two children
NewWitness ==
    /\ calls = <<"new">>
    /\ IsCollection(Unwrap(value)) /\ Len(Payload(Unwrap(value))) = 2
    /\ TheGeometry = [bbox |-> None, value |-> Unwrap(value), crs |-> None]

\* the payload defect of o: coordinates of the wrong shape, or a failing child
CoordinatesDefect(o) == TypeIs(o, CoordinateTypes) /\ ~CoordinatesFit(o)
ChildDefect(o) ==
    /\ TypeIs(o, {"GeometryCollection"})
    /\ HasChildList(o) /\ AllChildrenObjects(o) /\ FailingChildren(o) # {}

\* C10: with several defects at once the error follows the order type field,
\* type dispatch and payload, bbox, crs: a missing or non-string type wins over
\* everything, an unknown type and a malformed payload win over a malformed bbox
\* or crs, and a malformed bbox wins over a malformed crs.
ErrorPrecedence ==
    (Decoded /\ (BboxDefect(TheObject) \/ CrsDefect(TheObject))) =>
        /\ ~HasStringType(TheObject) => TheResult = Err(InvalidTypeField)
        /\ (HasStringType(TheObject) /\ ~TypeIs(TheObject, CanonicalNames)) =>
              TheResult = Err(GeometryUnknownType)
        /\ CoordinatesDefect(TheObject) => TheResult = Err(MalformedCoordinates)
        /\ ChildDefect(TheObject) =>
              TheResult = ChildResult(TheObject, FirstFailingChild(TheObject))
        /\ (PayloadOk(TheObject) /\ BboxDefect(TheObject) /\ CrsDefect(TheObject)) =>
              TheResult = Err(MalformedBbox)

\* a valid Point whose bbox and crs are both malformed has been refused with
\* MalformedBbox
ErrorPrecedenceWitness ==
    /\ Decoded
    /\ TypeIs(TheObject, {"Point"}) /\ PayloadOk(TheObject)
    /\ BboxDefect(TheObject) /\ CrsDefect(TheObject)
    /\ TheResult = Err(MalformedBbox)

====
